---- MODULE Spec2Model ----
(***************************************************************************)
(* sodexo-ofx: the network-idle detector waitForNetworkIdle and the main   *)
(* flow that awaits it (src/src/index.js).                                  *)
(*                                                                         *)
(* Time is discrete; one unit stands for 100 ms, so the defaults           *)
(* timeout = 500 and globalTimeout = 3000 of the source are 5 and 30.      *)
(* Timers are urgent: time does not pass a pending timer's due instant.    *)
(***************************************************************************)
EXTENDS Integers, Sequences, FiniteSets, TLC

\* Bounds of the model.
MaxRequests == 2         \* thresholds 0..MaxRequests
MaxTimeout == 2          \* quiet periods 1..MaxTimeout
MaxGlobalTimeout == 3    \* deadlines 1..MaxGlobalTimeout
MaxEvents == 5           \* events delivered to one invocation
MaxCards == 2            \* card options found by main

VARIABLES
    \* ---- waitForNetworkIdle(page, {timeout, requests, globalTimeout}) ----
    requests,        \* option: the threshold
    timeout,         \* option: the quiet period
    globalTimeout,   \* option: the overall deadline
    now,             \* the clock
    inFlight,        \* let inFlight
    globalTimeoutId, \* const globalTimeoutId: the deadline timer
    timeoutId,       \* let timeoutId: the quiet timer the closure remembers
    timers,          \* the runtime's pending timers
    nextTimerId,     \* the id the next setTimeout returns
    listeners,       \* events of the page the invocation listens to
    deferred,        \* const deferred
    outcome,         \* the promise: "pending", "resolved", "rejected"
    settledAt,       \* when the promise settled (-1 while pending)
    \* ---- history of the invocation ----
    idleSince,       \* since when inFlight <= requests without a break (-1: busy)
    busySince,       \* since when inFlight > requests without a break (-1: idle)
    everBusy,        \* inFlight has been above requests
    nRequest,        \* 'request' events delivered
    nResponse,       \* 'requestfinished' / 'requestfailed' events delivered
    firstEventAt,    \* time of the first event delivered (-1: none)
    lastEventAt,     \* time of the last event delivered (-1: none)
    \* ---- main(options) and mainCommand.handler ----
    pc,              \* position in main / the handler
    numCards,        \* cardOptions.length
    cardIdx,         \* i of the per-card loop
    browser,         \* "none", "open", "closed"
    loginRejects,    \* login-phase waits that rejected
    cardRejects,     \* per-card waits that rejected
    cardWaitsOk,     \* per-card waits that resolved
    responses,       \* responses.length (account data captured)
    cards,           \* Object.keys(cardsAndTransactions).length
    thrown,          \* main is unwinding with an error
    filesWritten,    \* .ofx files written
    exitCode         \* the code given to process.exit (-1: not exited)

waitVars == <<requests, timeout, globalTimeout, now, inFlight, globalTimeoutId,
              timeoutId, timers,
              nextTimerId, listeners, deferred, outcome, settledAt>>
histVars == <<idleSince, busySince, everBusy, nRequest, nResponse, firstEventAt, lastEventAt>>
mainVars == <<pc, numCards, cardIdx, browser, loginRejects, cardRejects, cardWaitsOk,
              responses, cards, thrown, filesWritten, exitCode>>
vars == <<waitVars, histVars, mainVars>>

----------------------------------------------------------------------------
(* The runtime's timers *)

\* setTimeout(callback, delay) called at time t: a new pending timer.
setTimeout(ts, id, callback, delay, t) ==
    ts \cup {[id |-> id, callback |-> callback, delay |-> delay, due |-> t + delay]}

\* clearTimeout(id): no effect when the timer has fired or was cleared.
clearTimeout(ts, id) == {x \in ts : x.id # id}

\* A due timer fires once every timer of the same delay scheduled before it
\* has fired; timers of different delays due at the same instant fire in
\* either order.
CanFire(ts, x, t) ==
    /\ x \in ts
    /\ x.due <= t
    /\ \A y \in ts : (y.due <= t /\ y.delay = x.delay) => y.id >= x.id

QuietTimers == {x \in timers : x.callback = "cleanupAndResolve"}

----------------------------------------------------------------------------
(* waitForNetworkIdle *)

PageEvents == {"request", "requestfailed", "requestfinished"}

\* The options main passes, in units of 100 ms, beside the small ranges.
Options ==
    [requests : 0 .. MaxRequests, timeout : 1 .. MaxTimeout,
     globalTimeout : 1 .. MaxGlobalTimeout]
    \cup {[requests |-> 0, timeout |-> 5, globalTimeout |-> 30],
          [requests |-> 0, timeout |-> 5, globalTimeout |-> 10]}

\* The three functions pushed on deferred, in the order they are pushed.
InitDeferred == <<"clearGlobalTimeout", "clearTimeoutId", "removeListeners">>

Reverse(s) == [i \in 1 .. Len(s) |-> s[Len(s) + 1 - i]]

\* One deferred function applied to the timers and listeners.
RunDeferredFn(fn, st, gid, tid) ==
    CASE fn = "clearGlobalTimeout" ->
             [st EXCEPT !.timers = clearTimeout(@, gid)]
      [] fn = "clearTimeoutId" ->
             [st EXCEPT !.timers = clearTimeout(@, tid)]
      [] fn = "removeListeners" ->
             [st EXCEPT !.listeners = {}]

RECURSIVE RunDeferred(_, _, _, _)
RunDeferred(fns, st, gid, tid) ==
    IF fns = <<>> THEN st
    ELSE RunDeferred(Tail(fns), RunDeferredFn(Head(fns), st, gid, tid), gid, tid)

\* cleanup(): deferred.reverse() reverses the array in place, then each
\* function runs. Result: the timers and listeners left.
cleanup(ts, ls, fns, gid, tid) ==
    RunDeferred(Reverse(fns), [timers |-> ts, listeners |-> ls], gid, tid)

\* Variant of resolve: a later call overwrites the settled outcome.
resolve_overwrites(o) == "resolved"

\* resolve / reject of the promise: only the first call settles it.
resolve(o) == IF o = "pending" THEN "resolved" ELSE o

reject(o) == IF o = "pending" THEN "rejected" ELSE o

\* Variant of onRequestTimers: the quiet timer is cleared on every request.
onRequestTimers_alwaysClears(ts, n, threshold, tid) == clearTimeout(ts, tid)

\* onRequest: which timers are left after the increment to n.
onRequestTimers(ts, n, threshold, tid) ==
    IF n > threshold THEN clearTimeout(ts, tid) ELSE ts

\* Variant of onResponseIgnored: no guard against a counter of 0.
onResponseIgnored_never(n) == FALSE

\* onResponse: whether the event is ignored.
onResponseIgnored(n) == n = 0

\* onResponse: whether a quiet timer is armed after the decrement to n.
onResponseArms(n, threshold) == n <= threshold

\* Variant of ExecutorTimers: the first quiet timer is scheduled before the
\* deadline timer.
ExecutorTimers_quietFirst(quiet, deadline) ==
    [timers |-> setTimeout(setTimeout({}, 1, "cleanupAndResolve", quiet, 0),
                           2, "cleanupAndReject", deadline, 0),
     globalTimeoutId |-> 2,
     timeoutId |-> 1]

\* The executor's two setTimeout calls, in their order: the deadline timer,
\* then the first quiet timer.
ExecutorTimers(quiet, deadline) ==
    [timers |-> setTimeout(setTimeout({}, 1, "cleanupAndReject", deadline, 0),
                           2, "cleanupAndResolve", quiet, 0),
     globalTimeoutId |-> 1,
     timeoutId |-> 2]

HistoryOfEvent ==
    /\ firstEventAt' = IF firstEventAt = -1 THEN now ELSE firstEventAt
    /\ lastEventAt' = now

\* The page emits 'request'.
onRequest ==
    /\ "request" \in listeners
    /\ nRequest + nResponse < MaxEvents
    /\ inFlight' = inFlight + 1
    /\ timers' = onRequestTimers(timers, inFlight', requests, timeoutId)
    /\ idleSince' = IF inFlight' > requests THEN -1 ELSE idleSince
    /\ busySince' = IF inFlight <= requests /\ inFlight' > requests
                    THEN now ELSE busySince
    /\ everBusy' = (everBusy \/ inFlight' > requests)
    /\ nRequest' = nRequest + 1
    /\ HistoryOfEvent
    /\ UNCHANGED <<requests, timeout, globalTimeout, now, globalTimeoutId, timeoutId,
                   nextTimerId, listeners, deferred, outcome, settledAt, nResponse>>
    /\ UNCHANGED mainVars

\* The page emits 'requestfinished' or 'requestfailed'.
onResponse(event) ==
    /\ event \in listeners
    /\ nRequest + nResponse < MaxEvents
    /\ nResponse' = nResponse + 1
    /\ HistoryOfEvent
    /\ IF onResponseIgnored(inFlight)
       THEN UNCHANGED <<inFlight, timers, timeoutId, nextTimerId, idleSince,
                        busySince>>
       ELSE /\ inFlight' = inFlight - 1
            /\ IF onResponseArms(inFlight', requests)
               THEN /\ timers' = setTimeout(timers, nextTimerId, "cleanupAndResolve",
                                            timeout, now)
                    /\ timeoutId' = nextTimerId
                    /\ nextTimerId' = nextTimerId + 1
               ELSE UNCHANGED <<timers, timeoutId, nextTimerId>>
            /\ idleSince' = IF inFlight > requests /\ inFlight' <= requests
                            THEN now ELSE idleSince
            /\ busySince' = IF inFlight' <= requests THEN -1 ELSE busySince
    /\ UNCHANGED <<requests, timeout, globalTimeout, now, globalTimeoutId, listeners,
                   deferred, outcome, settledAt, everBusy, nRequest>>
    /\ UNCHANGED mainVars

RequestFinished == onResponse("requestfinished")

RequestFailed == onResponse("requestfailed")

\* A timer fires and runs its callback, cleanupAndResolve or cleanupAndReject.
Settle(x) ==
    LET left == cleanup(timers \ {x}, listeners, deferred, globalTimeoutId, timeoutId)
    IN  /\ timers' = left.timers
        /\ listeners' = left.listeners
        /\ deferred' = Reverse(deferred)
        /\ outcome' = IF x.callback = "cleanupAndResolve"
                      THEN resolve(outcome) ELSE reject(outcome)
        /\ settledAt' = IF outcome = "pending" THEN now ELSE settledAt
        /\ UNCHANGED <<requests, timeout, globalTimeout, now, inFlight,
                       globalTimeoutId, timeoutId, nextTimerId>>
        /\ UNCHANGED histVars
        /\ UNCHANGED mainVars

QuietTimerFires ==
    \E x \in timers :
        /\ x.callback = "cleanupAndResolve"
        /\ CanFire(timers, x, now)
        /\ Settle(x)

GlobalTimerFires ==
    \E x \in timers :
        /\ x.callback = "cleanupAndReject"
        /\ CanFire(timers, x, now)
        /\ Settle(x)

\* Time passes, up to the last instant a timer of the invocation can be due.
Tick ==
    /\ \A x \in timers : x.due > now
    /\ now < globalTimeout + timeout
    /\ now' = now + 1
    /\ UNCHANGED <<requests, timeout, globalTimeout, inFlight, globalTimeoutId,
                   timeoutId, timers, nextTimerId, listeners, deferred, outcome,
                   settledAt>>
    /\ UNCHANGED histVars
    /\ UNCHANGED mainVars

\* The state when the promise executor has run.
InitWait(o) ==
    /\ requests = o.requests
    /\ timeout = o.timeout
    /\ globalTimeout = o.globalTimeout
    /\ now = 0
    /\ inFlight = 0
    /\ timers = ExecutorTimers(o.timeout, o.globalTimeout).timers
    /\ globalTimeoutId = ExecutorTimers(o.timeout, o.globalTimeout).globalTimeoutId
    /\ timeoutId = ExecutorTimers(o.timeout, o.globalTimeout).timeoutId
    /\ nextTimerId = 3
    /\ listeners = PageEvents
    /\ deferred = InitDeferred
    /\ outcome = "pending"
    /\ settledAt = -1
    /\ idleSince = 0
    /\ busySince = -1
    /\ everBusy = FALSE
    /\ nRequest = 0
    /\ nResponse = 0
    /\ firstEventAt = -1
    /\ lastEventAt = -1

MainIdle ==
    /\ pc = "idle"
    /\ numCards = 0
    /\ cardIdx = 0
    /\ browser = "none"
    /\ loginRejects = 0
    /\ cardRejects = 0
    /\ cardWaitsOk = 0
    /\ responses = 0
    /\ cards = 0
    /\ thrown = FALSE
    /\ filesWritten = 0
    /\ exitCode = -1

Init == (\E o \in Options : InitWait(o)) /\ MainIdle

Next ==
    \/ onRequest
    \/ RequestFinished
    \/ RequestFailed
    \/ QuietTimerFires
    \/ GlobalTimerFires
    \/ Tick

Spec == Init /\ [][Next]_vars

----------------------------------------------------------------------------
(* main(options) and mainCommand.handler.  The waits are the calls of      *)
(* waitForNetworkIdle; each settles as "resolved" or "rejected".  The      *)
(* other calls of the browser driver are taken to succeed.                 *)

WaitResults == {"resolved", "rejected"}

\* try { await Promise.all([click, waitForNetworkIdle]) } catch (e) { }
LoginWaitThrows(result) == FALSE

\* Variant of CardWaitThrows: the per-card waits are wrapped like the login
\* waits, in a try/catch that ignores the error.
CardWaitThrows_swallowed(result) == FALSE

\* await Promise.all([click, waitForNetworkIdle]) in the per-card loop.
CardWaitThrows(result) == result = "rejected"

\* handleError: (error && error.exitCode) || 1; 0 stands for no exitCode.
handleError(errorExitCode) == IF errorExitCode # 0 THEN errorExitCode ELSE 1

\* .then(exitCode => exitCode || 0); 0 stands for main's undefined.
HandlerExitCode(code) == IF code # 0 THEN code ELSE 0

\* puppeteer.launch, newPage, goto, typing the credentials.
Launch ==
    /\ pc = "start"
    /\ browser' = "open"
    /\ pc' = "login1"
    /\ UNCHANGED <<numCards, cardIdx, loginRejects, cardRejects, cardWaitsOk,
                   responses, cards, thrown, filesWritten, exitCode>>
    /\ UNCHANGED <<waitVars, histVars>>

\* The two login-phase waits (submit, card statement link).
LoginWait ==
    /\ pc \in {"login1", "login2"}
    /\ \E result \in WaitResults :
        /\ loginRejects' = IF result = "rejected" THEN loginRejects + 1
                           ELSE loginRejects
        /\ IF LoginWaitThrows(result)
           THEN thrown' = TRUE /\ pc' = "finally"
           ELSE thrown' = thrown /\ pc' = IF pc = "login1" THEN "login2" ELSE "loop"
    /\ UNCHANGED <<numCards, cardIdx, browser, cardRejects, cardWaitsOk, responses,
                   cards, filesWritten, exitCode>>
    /\ UNCHANGED <<waitVars, histVars>>

\* for (let i = 0; i < cardOptions.length; i++)
LoopHead ==
    /\ pc = "loop"
    /\ pc' = IF cardIdx < numCards THEN "consult" ELSE "collect"
    /\ UNCHANGED <<numCards, cardIdx, browser, loginRejects, cardRejects,
                   cardWaitsOk, responses, cards, thrown, filesWritten, exitCode>>
    /\ UNCHANGED <<waitVars, histVars>>

\* The two per-card waits (#buttonConsult, the period option); the page's
\* 'response' listener may push account data meanwhile.
CardWait ==
    /\ pc \in {"consult", "period"}
    /\ \E result \in WaitResults, pushed \in 0 .. 1 :
        /\ responses' = responses + pushed
        /\ IF CardWaitThrows(result)
           THEN /\ thrown' = TRUE
                /\ pc' = "finally"
                /\ cardIdx' = cardIdx
           ELSE /\ thrown' = thrown
                /\ pc' = IF pc = "consult" THEN "period" ELSE "loop"
                /\ cardIdx' = IF pc = "consult" THEN cardIdx ELSE cardIdx + 1
        /\ cardRejects' = IF result = "rejected" THEN cardRejects + 1 ELSE cardRejects
        /\ cardWaitsOk' = IF result = "resolved" THEN cardWaitsOk + 1 ELSE cardWaitsOk
    /\ UNCHANGED <<numCards, browser, loginRejects, cards, filesWritten, exitCode>>
    /\ UNCHANGED <<waitVars, histVars>>

\* responses.forEach: the responses that name a card fill cardsAndTransactions.
Collect ==
    /\ pc = "collect"
    /\ \E n \in 0 .. responses : cards' = n
    /\ pc' = "finally"
    /\ UNCHANGED <<numCards, cardIdx, browser, loginRejects, cardRejects,
                   cardWaitsOk, responses, thrown, filesWritten, exitCode>>
    /\ UNCHANGED <<waitVars, histVars>>

\* finally { await browser.close(); }
Finally ==
    /\ pc = "finally"
    /\ browser' = "closed"
    /\ pc' = IF thrown THEN "catch" ELSE "write"
    /\ UNCHANGED <<numCards, cardIdx, loginRejects, cardRejects, cardWaitsOk,
                   responses, cards, thrown, filesWritten, exitCode>>
    /\ UNCHANGED <<waitVars, histVars>>

\* Object.keys(cardsAndTransactions).forEach(... fs.writeFileSync ...)
WriteFile ==
    /\ pc = "write"
    /\ IF filesWritten < cards
       THEN filesWritten' = filesWritten + 1 /\ pc' = pc
       ELSE filesWritten' = filesWritten /\ pc' = "return"
    /\ UNCHANGED <<numCards, cardIdx, browser, loginRejects, cardRejects,
                   cardWaitsOk, responses, cards, thrown, exitCode>>
    /\ UNCHANGED <<waitVars, histVars>>

\* pTry(() => main(argv)).catch(handleError).then(exitCode => exitCode || 0)
\*     .then(process.exit)
Exit ==
    /\ pc \in {"return", "catch"}
    /\ exitCode' = IF pc = "catch" THEN HandlerExitCode(handleError(0))
                   ELSE HandlerExitCode(0)
    /\ pc' = "exited"
    /\ UNCHANGED <<numCards, cardIdx, browser, loginRejects, cardRejects,
                   cardWaitsOk, responses, cards, thrown, filesWritten>>
    /\ UNCHANGED <<waitVars, histVars>>

InitMain ==
    /\ InitWait([requests |-> 0, timeout |-> 5, globalTimeout |-> 30])
    /\ pc = "start"
    /\ numCards \in 0 .. MaxCards
    /\ cardIdx = 0
    /\ browser = "none"
    /\ loginRejects = 0
    /\ cardRejects = 0
    /\ cardWaitsOk = 0
    /\ responses = 0
    /\ cards = 0
    /\ thrown = FALSE
    /\ filesWritten = 0
    /\ exitCode = -1

NextMain ==
    \/ Launch
    \/ LoginWait
    \/ LoopHead
    \/ CardWait
    \/ Collect
    \/ Finally
    \/ WriteFile
    \/ Exit

SpecMain == InitMain /\ [][NextMain]_vars

----------------------------------------------------------------------------
(* Properties *)

\* Every callback that is due has run.
Quiesced == \A x \in timers : x.due > now

\* The instant of the last event, or of the call when there was none.
LastChangeAt == IF lastEventAt = -1 THEN 0 ELSE lastEventAt

\* C1: when the call has resolved, the in-flight counter is at or below the
\* threshold and has been so, without a break, for at least the quiet period
\* before the resolution -- for every threshold.
C1_ResolvesOnlyAfterQuietPeriod ==
    outcome = "resolved" =>
        /\ inFlight <= requests
        /\ idleSince >= 0
        /\ settledAt - idleSince >= timeout

C3_ReleasedOnSettlement ==
    outcome # "pending" => (listeners = {} /\ timers = {})

\* C4: the call is settled by the deadline at the latest; a rejection happens
\* at the deadline; a call whose counter went above the threshold at the
\* instant it started and stayed above up to the settlement is rejected, at
\* the deadline; with threshold 0, quiet period 5 and deadline 10, requests
\* at 0 and 2 and no finish give a rejection at 10.
C4_DeadlineIsHardCeiling ==
    /\ outcome = "pending" => now <= globalTimeout
    /\ outcome # "pending" => settledAt <= globalTimeout
    /\ outcome = "rejected" => settledAt = globalTimeout
    /\ (outcome # "pending" /\ busySince = 0) =>
           (outcome = "rejected" /\ settledAt = globalTimeout)
    /\ (/\ requests = 0 /\ timeout = 5 /\ globalTimeout = 10
        /\ nRequest = 2 /\ nResponse = 0
        /\ firstEventAt = 0 /\ lastEventAt = 2
        /\ outcome # "pending") =>
           (outcome = "rejected" /\ settledAt = 10)

\* C5, as stated: whenever the counter never went above the threshold and a
\* quiet period has passed since the last event (and every due callback has
\* run), the call has resolved -- whatever the deadline.
C5_ResolvesWhenQuiet_Original ==
    (~everBusy /\ now >= LastChangeAt + timeout /\ Quiesced) =>
        outcome = "resolved"

\* C5, amended: the same provided the quiet period is shorter than the
\* deadline; with no event at all the call then resolves at the quiet period;
\* and with threshold 0, quiet period 5 and deadline 30, a request at 0
\* finished at 1 leaves one quiet timer due at 6 and the call resolves at 6.
C5_ResolvesWhenQuiet ==
    /\ (/\ timeout < globalTimeout
        /\ ~everBusy
        /\ now >= LastChangeAt + timeout
        /\ Quiesced) =>
           outcome = "resolved"
    /\ (/\ timeout < globalTimeout
        /\ nRequest + nResponse = 0
        /\ outcome # "pending") =>
           (outcome = "resolved" /\ settledAt = timeout)
    /\ (/\ requests = 0 /\ timeout = 5 /\ globalTimeout = 30
        /\ nRequest = 1 /\ nResponse = 1
        /\ firstEventAt = 0 /\ lastEventAt = 1 /\ idleSince = 1) =>
           IF outcome = "pending"
           THEN /\ now <= 6
                /\ Cardinality(QuietTimers) = 1
                /\ \A x \in QuietTimers : x.due = 6 /\ x.id = timeoutId
           ELSE outcome = "resolved" /\ settledAt = 6

\* C5 witness: the counter stayed at or below a threshold of at least 1 while
\* requests started and finished, and the call resolved.
C5_Witness ==
    /\ timeout < globalTimeout
    /\ ~everBusy
    /\ nRequest >= 1
    /\ nResponse >= 1
    /\ now >= LastChangeAt + timeout
    /\ Quiesced
    /\ outcome = "resolved"

\* C6: the counter is never negative, and a requestfinished / requestfailed
\* event delivered while the counter is 0 leaves the counter at 0, arms no
\* timer, and leaves the timers, the listeners and the outcome as they were.
C6_ResponseAtZeroIsNoOp ==
    /\ [](inFlight >= 0)
    /\ [][(nResponse' = nResponse + 1 /\ inFlight = 0) =>
              /\ inFlight' = 0
              /\ timers' = timers
              /\ timeoutId' = timeoutId
              /\ nextTimerId' = nextTimerId
              /\ listeners' = listeners
              /\ outcome' = outcome]_vars

\* C6 witness: two finish/fail events were delivered with no request at all,
\* and the call is as it started.
C6_Witness ==
    /\ nResponse = 2
    /\ nRequest = 0
    /\ inFlight = 0
    /\ Cardinality(timers) = 2
    /\ outcome = "pending"

\* C7: while the call is unsettled at most one quiet timer is pending, and
\* none is pending while the counter is above the threshold -- for every
\* threshold.
C7_SingleQuietTimer ==
    outcome = "pending" =>
        /\ Cardinality(QuietTimers) <= 1
        /\ inFlight > requests => QuietTimers = {}

\* C8: a finish/fail event changes the timers only when it moves the counter
\* from above the threshold to at or below it, and a request event changes
\* them only when it moves the counter from at or below the threshold to
\* above it.
C8_EdgeTriggered ==
    [][/\ (nResponse' = nResponse + 1 /\ timers' # timers) =>
              (inFlight > requests /\ inFlight' <= requests)
       /\ (nRequest' = nRequest + 1 /\ timers' # timers) =>
              (inFlight <= requests /\ inFlight' > requests)]_vars

\* C9: when the quiet period is at least the deadline the call never
\* resolves: it is rejected, at the deadline, whatever the events.
C9_QuietNotShorterThanDeadline ==
    timeout >= globalTimeout =>
        /\ outcome # "resolved"
        /\ outcome = "rejected" => settledAt = globalTimeout
        /\ now > globalTimeout => outcome = "rejected"

\* C9 witness: quiet period and deadline are equal, requests started and
\* finished, the counter is within the threshold, and the call was rejected.
C9_Witness ==
    /\ timeout = globalTimeout
    /\ nRequest >= 1
    /\ nResponse >= 1
    /\ inFlight <= requests
    /\ outcome = "rejected"
    /\ settledAt = globalTimeout

\* C10: a rejected login wait does not make main throw; once a per-card wait
\* has rejected, main is unwinding, no .ofx file is ever written, the browser
\* is closed before the handler runs and the exit code is not 0; files are
\* written only with the browser closed and every per-card wait resolved; and
\* the exit code is 0 when no per-card wait rejected.
C10_MainErrorHandling ==
    /\ thrown => cardRejects > 0
    /\ cardRejects > 0 =>
           /\ thrown
           /\ filesWritten = 0
           /\ pc \in {"finally", "catch", "exited"}
           /\ pc \in {"catch", "exited"} => browser = "closed"
           /\ pc = "exited" => (exitCode # 0 /\ exitCode # -1)
    /\ filesWritten > 0 =>
           /\ browser = "closed"
           /\ cardRejects = 0
           /\ cardWaitsOk = 2 * numCards
    /\ (pc = "exited" /\ cardRejects = 0) => (exitCode = 0 /\ browser = "closed")

\* C10 witness: both login waits rejected, the first card was fetched with
\* its data captured, a wait of the second card rejected, and the process
\* has exited.
C10_Witness ==
    /\ loginRejects = 2
    /\ cardIdx >= 1
    /\ responses >= 1
    /\ cardRejects = 1
    /\ pc = "exited"

====
